---- MODULE Spec2Model ----
(***************************************************************************)
(* Model of the BioProfile 400 logger (src/bioprofile400.py): the polling  *)
(* loop of main_core that filters and frames instrument chunks into        *)
(* messages, saves them as playback files and replays such files, the      *)
(* record parser parse_message and the table builder build_table.          *)
(*                                                                         *)
(* Bytes and text are sequences of one-character strings, so that split,   *)
(* strip, replace, slicing, startswith and endswith are computed as the    *)
(* Python code computes them.  A Python value that is a str or None is the *)
(* record [isNone, text]; a table cell is [tag, isNone, text] with tag     *)
(* "Plain" (a bare value), "Odd" (OddResult) or "Error" (ErrorResult).     *)
(***************************************************************************)
EXTENDS Integers, Sequences, FiniteSets, TLC

VARIABLES
    pc,                 \* main_core: "loop", "done" (source ended), "crashed"
    instrument,         \* the chunk source: live device or playback file
    clock,              \* timestamp of the next chunk
    message,            \* main_core: message in progress, <<timestamp, data>>*
    blank_line_count,   \* main_core: counter of empty chunks
    procs,              \* main_core: in-flight sync jobs, in launch order
    jobs,               \* every sync job launched: "running", "ok" or "failed"
    parsed,             \* the calls of parse_message / build_table so far
    log,                \* what the logger recorded, in order
    files,              \* files this run wrote below the cache directory
    polled,             \* chunks read so far, after the status filter
    captured,           \* a replay run: the message its .raw file was written for
    parse_in,           \* SpecParse: the message handed to parse_message
    parse_out,          \* SpecParse: what parse_message returned or raised
    table_in,           \* SpecTable: the records handed to build_table
    table_out,          \* SpecTable: the table build_table returned
    filter_in,          \* SpecFilter: the bytes of one chunk as received
    filter_out          \* SpecFilter: the bytes handed on to framing

vars == <<pc, instrument, clock, message, blank_line_count, procs, jobs,
          parsed, log, files, polled, captured, parse_in, parse_out,
          table_in, table_out, filter_in, filter_out>>

loopVars == <<pc, instrument, clock, message, blank_line_count, procs,
              jobs, parsed, log, files, polled, captured>>
parseVars == <<parse_in, parse_out>>
tableVars == <<table_in, table_out>>
filterVars == <<filter_in, filter_out>>

(***************************************************************************)
(* Bounds of the model.                                                    *)
(***************************************************************************)
MaxLines == 3
MaxRecords == 3
MaxPieces == 3

(***************************************************************************)
(* Program constants.                                                      *)
(***************************************************************************)
HEADER_ROW == "H"
HEADER_ROW_TIME == 13
NAME_ROW == "O"
NAME_ROW_NAME_1 == 2
NAME_ROW_NAME_2 == 3
NAME_ROW_TYPE == 15
ERROR_ROW == "C"
ERROR_ROW_MESSAGE == 3
ASSAY_ROW == "R"
ASSAY_ROW_NAME == 2
ASSAY_ROW_VALUE == 3
ASSAY_ROW_UNITS == 4

(***************************************************************************)
(* Python text primitives.                                                 *)
(***************************************************************************)
Min(a, b) == IF a < b THEN a ELSE b

\* bytes the codec cannot decode, and what errors="replace" puts for them
BadByte == "xFF"
ReplacementChar == "uFFFD"

\* ASCII whitespace, as bytes.strip() understands it
Whitespace == {" ", "\t", "\n", "\r", "\f"}

\* s[a:b] for 0 <= a, 0 <= b
Slice(s, a, b) == SubSeq(s, a + 1, Min(b, Len(s)))

\* s[a:]
SliceFrom(s, a) == SubSeq(s, a + 1, Len(s))

\* str.startswith / str.endswith for a one-character argument
StartsWith(s, c) == Len(s) > 0 /\ s[1] = c
EndsWith(s, c) == Len(s) > 0 /\ s[Len(s)] = c

RECURSIVE LStrip(_)
LStrip(s) == IF Len(s) > 0 /\ s[1] \in Whitespace THEN LStrip(Tail(s)) ELSE s

RECURSIVE RStrip(_)
RStrip(s) ==
    IF Len(s) > 0 /\ s[Len(s)] \in Whitespace
    THEN RStrip(SubSeq(s, 1, Len(s) - 1))
    ELSE s

\* bytes.strip()
Strip(s) == LStrip(RStrip(s))

\* bytes.decode("utf-8", errors="replace")
Decode(s) == [i \in 1..Len(s) |-> IF s[i] = BadByte THEN ReplacementChar ELSE s[i]]

\* bytes.split(sep) for a one-byte separator: always at least one field
RECURSIVE Split(_, _)
Split(s, sep) ==
    IF \A i \in 1..Len(s) : s[i] # sep
    THEN <<s>>
    ELSE LET i == CHOOSE k \in 1..Len(s) :
                      s[k] = sep /\ \A j \in 1..(k - 1) : s[j] # sep
         IN  <<SubSeq(s, 1, i - 1)>> \o Split(SubSeq(s, i + 1, Len(s)), sep)

\* str.replace(c, "") for a one-character c
Remove(s, c) == SelectSeq(s, LAMBDA x : x # c)

\* sep.join(parts)
RECURSIVE Join(_, _)
Join(parts, sep) ==
    IF Len(parts) = 0 THEN <<>>
    ELSE IF Len(parts) = 1 THEN parts[1]
    ELSE parts[1] \o sep \o Join(Tail(parts), sep)

Digits == <<"0", "1", "2", "3", "4", "5", "6", "7", "8", "9">>

\* str(n) for n >= 0
RECURSIVE IntToStr(_)
IntToStr(n) ==
    IF n < 10 THEN <<Digits[n + 1]>>
    ELSE IntToStr(n \div 10) \o <<Digits[(n % 10) + 1]>>

\* a str value and None
Str(s) == [isNone |-> FALSE, text |-> s]
None == [isNone |-> TRUE, text |-> <<>>]

(***************************************************************************)
(* parse_timestamp                                                         *)
(***************************************************************************)
\* the seconds cut one character short
parse_timestamp_ShortSeconds(value) ==
    Slice(value, 0, 4) \o <<"-">> \o Slice(value, 4, 6) \o <<"-">>
        \o Slice(value, 6, 8) \o <<" ">> \o Slice(value, 8, 10) \o <<":">>
        \o Slice(value, 10, 12) \o <<":">> \o Slice(value, 12, 13)

parse_timestamp(value) ==
    Slice(value, 0, 4) \o <<"-">> \o Slice(value, 4, 6) \o <<"-">>
        \o Slice(value, 6, 8) \o <<" ">> \o Slice(value, 8, 10) \o <<":">>
        \o Slice(value, 10, 12) \o <<":">> \o Slice(value, 12, 14)

(***************************************************************************)
(* parse_message.  An OrderedDict is a sequence of entries with unique     *)
(* keys; assigning to a key that is present keeps its position.            *)
(***************************************************************************)
_new(group, sample_id) ==
    [group |-> Str(group), id |-> Str(IntToStr(sample_id)),
     name_1 |-> None, name_2 |-> None, type |-> None,
     assays |-> <<>>, errors |-> <<>>, timestamp |-> None]

\* row = [field.strip().decode(...) for field in line.split(b"|")]
SplitRow(line) ==
    LET fields == Split(line, "|")
    IN  [i \in 1..Len(fields) |-> Decode(Strip(fields[i]))]

\* _is(row, kind)
_is(row, kind) == EndsWith(row[1], kind)

\* row[k] raises IndexError unless the row has more than k fields
HasField(row, k) == k < Len(row)
Field(row, k) == row[k + 1]

\* d[key] = entry on an OrderedDict
DictSet_MoveToEnd(d, key, entry) ==
    Append(SelectSeq(d, LAMBDA e : e.key # key), entry)

DictSet(d, key, entry) ==
    IF \E i \in 1..Len(d) : d[i].key = key
    THEN [i \in 1..Len(d) |-> IF d[i].key = key THEN entry ELSE d[i]]
    ELSE Append(d, entry)

\* if sample["assays"] or sample["errors"]
NonEmptySample(sample) == Len(sample.assays) > 0 \/ Len(sample.errors) > 0

\* samples.append(sample) under the retention test
Flush(samples, sample) ==
    IF NonEmptySample(sample) THEN Append(samples, sample) ELSE samples

Raise(st) == [st EXCEPT !.raised = TRUE]

\* one iteration of the loop over the message's lines
ParseLine(st, line, group) ==
    LET row == SplitRow(line) IN
    IF _is(row, HEADER_ROW) THEN
        LET flushed == [st EXCEPT !.samples = Flush(st.samples, st.sample),
                                  !.sample_id = st.sample_id + 1,
                                  !.sample = _new(group, st.sample_id + 1)]
        IN  IF HasField(row, HEADER_ROW_TIME)
            THEN [flushed EXCEPT !.sample.timestamp =
                      Str(parse_timestamp(Field(row, HEADER_ROW_TIME)))]
            ELSE Raise(flushed)
    ELSE IF _is(row, NAME_ROW) THEN
        IF HasField(row, NAME_ROW_NAME_1) /\ HasField(row, NAME_ROW_NAME_2)
           /\ HasField(row, NAME_ROW_TYPE)
        THEN [st EXCEPT !.sample.name_1 = Str(Field(row, NAME_ROW_NAME_1)),
                        !.sample.name_2 = Str(Field(row, NAME_ROW_NAME_2)),
                        !.sample.type = Str(Field(row, NAME_ROW_TYPE))]
        ELSE Raise(st)
    ELSE IF _is(row, ERROR_ROW) THEN
        IF HasField(row, ERROR_ROW_MESSAGE)
        THEN [st EXCEPT !.sample.errors =
                  Append(st.sample.errors, Field(row, ERROR_ROW_MESSAGE))]
        ELSE Raise(st)
    ELSE IF _is(row, ASSAY_ROW) THEN
        IF HasField(row, ASSAY_ROW_NAME) /\ HasField(row, ASSAY_ROW_VALUE)
           /\ HasField(row, ASSAY_ROW_UNITS)
        THEN LET assay == Remove(Field(row, ASSAY_ROW_NAME), "^")
             IN  [st EXCEPT !.sample.assays =
                      DictSet(st.sample.assays, assay,
                              [key |-> assay,
                               value |-> Field(row, ASSAY_ROW_VALUE),
                               units |-> Field(row, ASSAY_ROW_UNITS)])]
        ELSE Raise(st)
    ELSE st

RECURSIVE ParseLines(_, _, _)
ParseLines(st, lines, group) ==
    IF Len(lines) = 0 \/ st.raised THEN st
    ELSE ParseLines(ParseLine(st, lines[1][2], group), Tail(lines), group)

\* parse_message(message, group): the list returned, or raised = TRUE when an
\* IndexError leaves the function
parse_message(msg, group) ==
    LET start == [samples |-> <<>>, sample_id |-> 0,
                  sample |-> _new(group, 0), raised |-> FALSE]
        end == ParseLines(start, msg, group)
    IN  IF end.raised
        THEN [raised |-> TRUE, samples |-> <<>>]
        ELSE [raised |-> FALSE, samples |-> Flush(end.samples, end.sample)]

(***************************************************************************)
(* build_table.  OddResult(x) and ErrorResult(x) wrap a str or None; every *)
(* other cell is the bare value.                                           *)
(***************************************************************************)
Plain(v) == [tag |-> "Plain", isNone |-> v.isNone, text |-> v.text]
OddResult(v) == [tag |-> "Odd", isNone |-> v.isNone, text |-> v.text]
ErrorResult(v) == [tag |-> "Error", isNone |-> v.isNone, text |-> v.text]

AmbiguousUnits == <<"?", "?", "?">>
ErrorToken == <<"*", "*", "*", "*">>
OddPrefix == <<"O", "d", "d", " ", "r", "e", "s", "u", "l", "t", "s", " ",
               "f", "o", "r", " ">>
CommaSpace == <<",", " ">>

HasKey(d, key) == \E i \in 1..Len(d) : d[i].key = key
Lookup(d, key) == d[CHOOSE i \in 1..Len(d) : d[i].key = key]

\* if assays.setdefault(key, units) != units: assays[key] = OddResult("???")
\* (an OddResult never compares equal to a str)
SetUnits_LastSeen(assays, key, units) ==
    DictSet(assays, key, [key |-> key, cell |-> Plain(Str(units))])

SetUnits(assays, key, units) ==
    IF ~HasKey(assays, key)
    THEN Append(assays, [key |-> key, cell |-> Plain(Str(units))])
    ELSE IF Lookup(assays, key).cell # Plain(Str(units))
    THEN DictSet(assays, key,
                 [key |-> key, cell |-> OddResult(Str(AmbiguousUnits))])
    ELSE assays

\* for key, values in row["assays"].items(): ...
RECURSIVE UnitsOfRow(_, _)
UnitsOfRow(assays, entries) ==
    IF Len(entries) = 0 THEN assays
    ELSE UnitsOfRow(SetUnits(assays, entries[1].key, entries[1].units),
                    Tail(entries))

\* for row in rows: ...
RECURSIVE DiscoverAssays(_, _)
DiscoverAssays(assays, rows) ==
    IF Len(rows) = 0 THEN assays
    ELSE DiscoverAssays(UnitsOfRow(assays, rows[1].assays), Tail(rows))

\* row["assays"].get(key, {}).get("value", None)
RawValue(row, key) ==
    IF HasKey(row.assays, key) THEN Str(Lookup(row.assays, key).value) ELSE None

\* value and value.startswith("?")
IsQuestionable(value) == ~value.isNone /\ StartsWith(value.text, "?")

\* the cell appended for one assay column
AssayCell_KeepMarker(value) ==
    IF IsQuestionable(value) THEN OddResult(value)
    ELSE IF ~value.isNone /\ value.text = ErrorToken THEN ErrorResult(None)
    ELSE Plain(value)

AssayCell_ErrorKeepsText(value) ==
    IF IsQuestionable(value) THEN OddResult(Str(SliceFrom(value.text, 1)))
    ELSE IF ~value.isNone /\ value.text = ErrorToken THEN ErrorResult(value)
    ELSE Plain(value)

AssayCell(value) ==
    IF IsQuestionable(value) THEN OddResult(Str(SliceFrom(value.text, 1)))
    ELSE IF ~value.isNone /\ value.text = ErrorToken THEN ErrorResult(None)
    ELSE Plain(value)

\* for key in assays: ... output_row.append(value)
AssayCells_OwnKeys(row, assays) ==
    [i \in 1..Len(row.assays) |-> AssayCell(Str(row.assays[i].value))]

AssayCells(row, assays) ==
    [i \in 1..Len(assays) |-> AssayCell(RawValue(row, assays[i].key))]

\* questionable_assays, in column order
QuestionableAssays(row, assays) ==
    LET flagged == SelectSeq(assays,
                       LAMBDA a : IsQuestionable(RawValue(row, a.key)))
    IN  [i \in 1..Len(flagged) |-> flagged[i].key]

\* output_row.extend(ErrorResult(err) for err in row["errors"])
ErrorCells_Reversed(row) ==
    [i \in 1..Len(row.errors) |->
        ErrorResult(Str(row.errors[Len(row.errors) + 1 - i]))]

ErrorCells(row) == [i \in 1..Len(row.errors) |-> ErrorResult(Str(row.errors[i]))]

\* if questionable_assays: output_row.append(OddResult("Odd results for ..."))
SummaryCells_Always(questionable) ==
    <<OddResult(Str(OddPrefix \o Join(questionable, CommaSpace)))>>

SummaryCells(questionable) ==
    IF Len(questionable) > 0
    THEN <<OddResult(Str(OddPrefix \o Join(questionable, CommaSpace)))>>
    ELSE <<>>

IdentityCells(row) ==
    <<Plain(row.group), Plain(row.id), Plain(row.type), Plain(row.name_1),
      Plain(row.name_2), Plain(row.timestamp)>>

OutputRow(row, assays) ==
    IdentityCells(row) \o AssayCells(row, assays) \o ErrorCells(row)
        \o SummaryCells(QuestionableAssays(row, assays))

FixedHeader ==
    <<Plain(Str(<<"F", "i", "l", "e", "n", "a", "m", "e">>)),
      Plain(Str(<<"#">>)),
      Plain(Str(<<"T", "y", "p", "e">>)),
      Plain(Str(<<"I", "D">>)),
      Plain(Str(<<"C", "u", "p">>)),
      Plain(Str(<<"T", "i", "m", "e", "s", "t", "a", "m", "p">>))>>

header_1(assays) ==
    FixedHeader \o [i \in 1..Len(assays) |-> Plain(Str(assays[i].key))]

header_2(assays) ==
    [i \in 1..Len(FixedHeader) |-> Plain(None)]
        \o [i \in 1..Len(assays) |-> assays[i].cell]

build_table(rows) ==
    LET assays == DiscoverAssays(<<>>, rows)
    IN  <<header_1(assays), header_2(assays)>>
            \o [i \in 1..Len(rows) |-> OutputRow(rows[i], assays)]

(***************************************************************************)
(* The playback format: write_playback and AstmPlayback.  A timestamp is a *)
(* count of seconds; isoformat renders it in decimal digits.               *)
(***************************************************************************)
\* the characters 0x20 .. 0x7e (the quote, the backslash and the backquote
\* by their codes)
Printable ==
    <<" ", "!", "x22", "#", "$", "%", "&", "'", "(", ")", "*", "+",
      ",", "-", ".", "/", "0", "1", "2", "3", "4", "5", "6", "7",
      "8", "9", ":", ";", "<", "=", ">", "?", "@", "A", "B", "C",
      "D", "E", "F", "G", "H", "I", "J", "K", "L", "M", "N", "O",
      "P", "Q", "R", "S", "T", "U", "V", "W", "X", "Y", "Z", "[",
      "x5C", "]", "^", "_", "x60", "a", "b", "c", "d", "e", "f", "g",
      "h", "i", "j", "k", "l", "m", "n", "o", "p", "q", "r", "s",
      "t", "u", "v", "w", "x", "y", "z", "{", "|", "}", "~">>

HexDigits == <<"0", "1", "2", "3", "4", "5", "6", "7", "8", "9",
               "a", "b", "c", "d", "e", "f">>

\* the value of a byte
ByteValue(c) ==
    CASE c = "\t" -> 9
      [] c = "\n" -> 10
      [] c = "\f" -> 12
      [] c = "\r" -> 13
      [] c = BadByte -> 255
      [] OTHER -> 31 + (CHOOSE k \in 1..Len(Printable) : Printable[k] = c)

ByteOfValue(n) ==
    CASE n = 9 -> "\t"
      [] n = 10 -> "\n"
      [] n = 12 -> "\f"
      [] n = 13 -> "\r"
      [] n = 255 -> BadByte
      [] OTHER -> Printable[n - 31]

HexValue(h) == (CHOOSE k \in 1..16 : HexDigits[k] = h) - 1

\* bytes.hex()
RECURSIVE Hex(_)
Hex(data) ==
    IF Len(data) = 0 THEN <<>>
    ELSE <<HexDigits[(ByteValue(data[1]) \div 16) + 1],
           HexDigits[(ByteValue(data[1]) % 16) + 1]>> \o Hex(Tail(data))

\* codecs.decode(text, "hex")
RECURSIVE Unhex(_)
Unhex(text) ==
    IF Len(text) < 2 THEN <<>>
    ELSE <<ByteOfValue(16 * HexValue(text[1]) + HexValue(text[2]))>>
             \o Unhex(SubSeq(text, 3, Len(text)))

\* datetime.isoformat() and datetime.fromisoformat()
isoformat(t) == IntToStr(t)

RECURSIVE fromisoformat(_)
fromisoformat(text) ==
    IF Len(text) = 0 THEN 0
    ELSE 10 * fromisoformat(SubSeq(text, 1, Len(text) - 1))
           + ((CHOOSE k \in 1..10 : Digits[k] = text[Len(text)]) - 1)

PlaybackTerminators == 3

\* the lines write_playback writes
write_playback(timestamp, msg) ==
    [i \in 1..Len(msg) |->
        isoformat(msg[i][1]) \o <<"\t">> \o Hex(msg[i][2]) \o <<"\n">>]
    \o [i \in 1..PlaybackTerminators |->
        isoformat(timestamp) \o <<"\t">> \o <<"\n">>]

\* str.rstrip("\r\n")
RECURSIVE RStripNewline(_)
RStripNewline(s) ==
    IF Len(s) > 0 /\ s[Len(s)] \in {"\r", "\n"}
    THEN RStripNewline(SubSeq(s, 1, Len(s) - 1))
    ELSE s

\* AstmPlayback.__iter__: one line of the file to a chunk
PlaybackChunk(line) ==
    LET parts == Split(RStripNewline(line), "\t")
    IN  <<fromisoformat(parts[1]), Unhex(parts[2])>>

(***************************************************************************)
(* The status filter of main_core.                                         *)
(***************************************************************************)
NotReadyToken == <<"N", "O", "T", " ", "R", "D", "Y", "!", "E", "O", "D", "\r", "\n">>
BusyToken == <<"B", "U", "S", "Y", "!", "E", "O", "D", "\r", "\n">>
ReadyToken == <<"R", "E", "A", "D", "Y", "!", "E", "O", "D", "\r", "\n">>
STATUS_MESSAGES == <<NotReadyToken, BusyToken, ReadyToken>>

\* msg in data
Contains(data, msg) ==
    \E i \in 1..(Len(data) - Len(msg) + 1) :
        SubSeq(data, i, i + Len(msg) - 1) = msg

\* data.replace(msg, b""): the occurrences found scanning from the left
RECURSIVE Replace(_, _)
Replace(data, msg) ==
    IF Len(data) < Len(msg) THEN data
    ELSE IF SubSeq(data, 1, Len(msg)) = msg
    THEN Replace(SubSeq(data, Len(msg) + 1, Len(data)), msg)
    ELSE <<data[1]>> \o Replace(Tail(data), msg)

\* for msg in STATUS_MESSAGES: if msg in data: data = data.replace(msg, b"")
RECURSIVE FilterFrom(_, _)
FilterFrom(data, k) ==
    IF k > Len(STATUS_MESSAGES) THEN data
    ELSE FilterFrom(IF Contains(data, STATUS_MESSAGES[k])
                    THEN Replace(data, STATUS_MESSAGES[k])
                    ELSE data, k + 1)

FilterStatus(data) == FilterFrom(data, 1)

(***************************************************************************)
(* Inputs: field texts, lines and records the specifications draw from.    *)
(***************************************************************************)
Bar == <<"|">>
CRLF == <<"\r", "\n">>
TimeText == <<"2", "0", "2", "3", "0", "6", "1", "5", "0", "9", "3", "0", "0", "0">>
Alice == <<"A", "l", "i", "c", "e">>
Bob == <<"B", "o", "b">>
TypeX == <<"T", "y", "p", "e", "X">>
Glucose == <<"G", "l", "u", "c", "o", "s", "e">>
Lactate == <<"L", "a", "c", "t", "a", "t", "e">>
V55 == <<"5", ".", "5">>
V12 == <<"1", ".", "2">>
MgDl == <<"m", "g", "/", "d", "L">>
MmolL == <<"m", "m", "o", "l", "/", "L">>
Err1 == <<"E", "1">>
Err2 == <<"E", "2">>
GroupLabel == <<"g">>

\* k empty fields
Blanks(k) == [i \in 1..k |-> <<>>]

\* a header line of 14 fields, the time in field 13, behind a frame number
HeaderLine == Join(<<<<"1", "H">>>> \o Blanks(12) \o <<TimeText>>, Bar) \o CRLF
\* a header line of 13 fields, the time in field 12
HeaderLine13 == Join(<<<<"H">>>> \o Blanks(11) \o <<TimeText>>, Bar)
\* an identity line of 16 fields
IdentityLine ==
    Join(<<<<"O">>, <<"^">>, Alice, Bob>> \o Blanks(11) \o <<TypeX>>, Bar)
\* an identity line of 4 fields
IdentityLine4 == Join(<<<<"O">>, <<"^">>, Alice, Bob>>, Bar)
\* an error line of 4 fields, padded, with a byte that does not decode
ErrorLine ==
    Join(<<<<"C">>, <<"1">>, <<"I">>, <<" ", "E", BadByte, " ">>>>, Bar) \o CRLF
\* an error line of 3 fields
ErrorLine3 == Join(<<<<"C">>, <<"1">>, <<"I">>>>, Bar)
\* result lines of 5 fields
ResultGlucose ==
    Join(<<<<"R">>, <<"1">>, <<"^", "^", "^">> \o Glucose, V55, MgDl>>, Bar) \o CRLF
ResultGlucoseAgain ==
    Join(<<<<"R">>, <<"2">>, Glucose \o <<"^">>, ErrorToken, MmolL>>, Bar)
ResultLactate ==
    Join(<<<<"R">>, <<"2">>, <<"^">> \o Lactate, <<"?">> \o V12, MmolL>>, Bar)
\* result lines of 4 fields
ResultGlucose4 == Join(<<<<"R">>, <<"^">> \o Glucose, V55, MgDl>>, Bar)
ResultLactate4 ==
    Join(<<<<"R">>, <<"^", "?">> \o Lactate, <<"?">> \o V12, MmolL>>, Bar)
\* a line of a record type the parser does not know
TerminatorLine == Join(<<<<"L">>, <<"1">>, <<"N">>>>, Bar) \o CRLF

ParseLinesUniverse ==
    {HeaderLine, HeaderLine13, IdentityLine, IdentityLine4, ErrorLine,
     ErrorLine3, ResultGlucose, ResultGlucoseAgain, ResultLactate,
     ResultGlucose4, TerminatorLine}

\* messages of up to MaxLines lines, stamped 1, 2, ...
Messages ==
    UNION {{[i \in 1..n |-> <<i, f[i]>>] : f \in [1..n -> ParseLinesUniverse]} :
           n \in 0..MaxLines}

\* records as parse_message returns them: at least one assay or error
Assay(key, value, units) == [key |-> key, value |-> value, units |-> units]
GlucoseEntries ==
    {Assay(Glucose, V55, MgDl), Assay(Glucose, <<"?">> \o V12, MmolL),
     Assay(Glucose, ErrorToken, MgDl)}
LactateEntries ==
    {Assay(Lactate, <<"?">> \o ErrorToken, MmolL), Assay(Lactate, <<>>, MgDl)}
AssayLists ==
    {<<a>> : a \in GlucoseEntries \cup LactateEntries}
        \cup {<<a, b>> : a \in GlucoseEntries, b \in LactateEntries}
Sample(assays, errors) ==
    [_new(GroupLabel, 1) EXCEPT !.assays = assays, !.errors = errors]
Records ==
    {Sample(a, <<>>) : a \in AssayLists}
        \cup {Sample(a, <<Err1, Err2>>) :
                 a \in {<<>>} \cup {<<g>> : g \in GlucoseEntries}}
RecordLists ==
    UNION {[1..n -> Records] : n \in 0..MaxRecords}

\* no .raw file of an earlier run is being replayed
NoCapture == [at |-> 0, message |-> <<>>]

(***************************************************************************)
(* SpecParse: parse_message applied to every message of the bounded set.   *)
(***************************************************************************)
LoopIdle ==
    /\ pc = "loop"
    /\ instrument = [source |-> "none", pending |-> <<>>]
    /\ clock = 1
    /\ message = <<>>
    /\ blank_line_count = 0
    /\ procs = <<>>
    /\ jobs = <<>>
    /\ parsed = <<>>
    /\ log = <<>>
    /\ files = <<>>
    /\ polled = <<>>
    /\ captured = NoCapture

ParsePending == [done |-> FALSE, raised |-> FALSE, samples |-> <<>>]
TablePending == [done |-> FALSE, table |-> <<>>]
FilterPending == [done |-> FALSE, data |-> <<>>]

InitParse ==
    /\ LoopIdle
    /\ parse_in \in Messages
    /\ parse_out = ParsePending
    /\ table_in = <<>>
    /\ table_out = TablePending
    /\ filter_in = <<>>
    /\ filter_out = FilterPending

ParseCall ==
    /\ ~parse_out.done
    /\ parse_out' = [done |-> TRUE,
                     raised |-> parse_message(parse_in, GroupLabel).raised,
                     samples |-> parse_message(parse_in, GroupLabel).samples]
    /\ UNCHANGED <<loopVars, parse_in, tableVars, filterVars>>

NextParse == ParseCall

SpecParse == InitParse /\ [][NextParse]_vars

(***************************************************************************)
(* SpecTable: build_table applied to every record list of the bounded set. *)
(***************************************************************************)
InitTable ==
    /\ LoopIdle
    /\ parse_in = <<>>
    /\ parse_out = ParsePending
    /\ table_in \in RecordLists
    /\ table_out = TablePending
    /\ filter_in = <<>>
    /\ filter_out = FilterPending

BuildCall ==
    /\ ~table_out.done
    /\ table_out' = [done |-> TRUE, table |-> build_table(table_in)]
    /\ UNCHANGED <<loopVars, parseVars, table_in, filterVars>>

NextTable == BuildCall

SpecTable == InitTable /\ [][NextTable]_vars

(***************************************************************************)
(* SpecFilter: the status filter of main_core applied to one chunk made of *)
(* up to MaxPieces pieces: whole tokens, halves of tokens and data.        *)
(***************************************************************************)
FilterPieces ==
    {NotReadyToken, BusyToken, ReadyToken,
     SubSeq(BusyToken, 1, 2), SubSeq(BusyToken, 3, Len(BusyToken)),
     SubSeq(NotReadyToken, 1, 7), SubSeq(NotReadyToken, 8, Len(NotReadyToken)),
     ResultGlucose}

RECURSIVE Concat(_)
Concat(pieces) ==
    IF Len(pieces) = 0 THEN <<>> ELSE pieces[1] \o Concat(Tail(pieces))

FilterInputs ==
    {Concat(q) : q \in UNION {[1..n -> FilterPieces] : n \in 0..MaxPieces}}

InitFilter ==
    /\ LoopIdle
    /\ parse_in = <<>>
    /\ parse_out = ParsePending
    /\ table_in = <<>>
    /\ table_out = TablePending
    /\ filter_in \in FilterInputs
    /\ filter_out = FilterPending

FilterCall ==
    /\ ~filter_out.done
    /\ filter_out' = [done |-> TRUE, data |-> FilterStatus(filter_in)]
    /\ UNCHANGED <<loopVars, parseVars, tableVars, filter_in>>

NextFilter == FilterCall

SpecFilter == InitFilter /\ [][NextFilter]_vars

(***************************************************************************)
(* Spec: the polling loop of main_core, fed by a live instrument or by a   *)
(* playback file.                                                          *)
(***************************************************************************)
MaxPolls == 7

EndOfMessageBlanks == 3
MinMessageLines == 3

\* if blank_line_count < 3: continue
KeepsWaiting_TwoBlanks(count) == count < EndOfMessageBlanks - 1

KeepsWaiting(count) == count < EndOfMessageBlanks

\* blank_line_count = 0, on a chunk with data
CountAfterData_Kept(count) == count

CountAfterData(count) == 0

\* blank_line_count += 1
CountBlank_UpToThreshold(count) == Min(count + 1, EndOfMessageBlanks)

CountBlank(count) == count + 1

\* if len(message) > 3
IsSaved_AnyLength(msg) == Len(msg) > 0

IsSaved(msg) == Len(msg) > MinMessageLines

\* the lines of the end-to-end scenario in the layout of the field offsets
ScenarioHeader14 == Join(<<<<"H">>>> \o Blanks(12) \o <<TimeText>>, Bar)
ScenarioGlucose5 ==
    Join(<<<<"R">>, <<"1">>, <<"^">> \o Glucose, V55, MgDl>>, Bar)
ScenarioLactate5 ==
    Join(<<<<"R">>, <<"2">>, <<"^">> \o Lactate, <<"?">> \o V12, MmolL>>, Bar)

\* chunks of the given lines, stamped first, first + 1, ...
Stamped(lines, first) == [i \in 1..Len(lines) |-> <<first + i - 1, lines[i]>>]

\* the end-to-end scenario with the lines as the specification writes them
ScenarioAsWritten ==
    Stamped(<<HeaderLine13, IdentityLine, ResultGlucose4, ResultLactate4>>, 1)
ScenarioByOffsets ==
    Stamped(<<ScenarioHeader14, IdentityLine, ScenarioGlucose5,
              ScenarioLactate5>>, 1)
SecondMessage ==
    Stamped(<<HeaderLine, ResultGlucose, ErrorLine, ResultLactate,
              TerminatorLine>>, 11)
ShortMessage == Stamped(<<HeaderLine, ResultGlucose \o ReadyToken>>, 1)
\* a chunk in which a READY token stands inside the bytes of a BUSY token
BusyAroundReady == <<"B", "U">> \o ReadyToken \o SubSeq(BusyToken, 3, Len(BusyToken))
NestedMessage ==
    Stamped(<<HeaderLine, ResultGlucose, BusyAroundReady, ResultLactate,
              TerminatorLine>>, 1)

\* playback files: each the lines of one or more .raw files
PlaybackFiles ==
    {[source |-> "as written", pending |-> write_playback(7, ScenarioAsWritten)],
     [source |-> "by offsets", pending |-> write_playback(7, ScenarioByOffsets)],
     [source |-> "two messages",
      pending |-> write_playback(7, ScenarioByOffsets)
                      \o write_playback(18, SecondMessage)],
     [source |-> "bad then good",
      pending |-> write_playback(7, ScenarioAsWritten)
                      \o write_playback(18, SecondMessage)],
     [source |-> "short",
      pending |-> write_playback(5, ShortMessage)
                      \o write_playback(18, SecondMessage)],
     [source |-> "nested token", pending |-> write_playback(8, NestedMessage)]}

\* what a live instrument returns to one poll
LiveChunks == {<<>>, BusyToken, ResultGlucose \o ReadyToken, IdentityLine4}

\* outcomes of the operating system calls made for a finished message
IoOutcomes == [mkdir : BOOLEAN, raw : BOOLEAN, xlsx : BOOLEAN, popen : BOOLEAN]

Init ==
    /\ pc = "loop"
    /\ instrument \in {[source |-> "live", pending |-> <<>>]} \cup PlaybackFiles
    /\ clock = 1
    /\ message = <<>>
    /\ blank_line_count = 0
    /\ procs = <<1>>
    /\ jobs = <<"running">>
    /\ parsed = <<>>
    /\ log = <<>>
    /\ files = <<>>
    /\ polled = <<>>
    /\ captured = NoCapture
    /\ parse_in = <<>>
    /\ parse_out = ParsePending
    /\ table_in = <<>>
    /\ table_out = TablePending
    /\ filter_in = <<>>
    /\ filter_out = FilterPending

\* a line of the log about a message: the event, the timestamp of the chunk
\* at hand, the lines of the message and the number of the iteration; a line
\* about a sync job carries the job in n and no time
Entry(event, at, n) ==
    [event |-> event, at |-> at, n |-> n, poll |-> Len(polled) + 1]

\* for (cmd, proc) in list(procs): if proc.poll() is not None: ...
StillRunning_NeverRemoved == procs

StillRunning == SelectSeq(procs, LAMBDA j : jobs[j] = "running")
Reaped ==
    LET ended == SelectSeq(procs, LAMBDA j : jobs[j] # "running")
    IN  [i \in 1..Len(ended) |->
            [event |-> IF jobs[ended[i]] = "ok" THEN "cmd_ok" ELSE "cmd_failed",
             at |-> 0, n |-> ended[i], poll |-> 0]]

\* timestamp.strftime(...): the group label and the file names
strftime(t) == IntToStr(t)

\* the body of the loop for one chunk
Iteration(timestamp, raw) ==
    LET data == FilterStatus(raw)
        log1 == log \o Reaped
        count == CountBlank(blank_line_count)
        logF == Append(log1, Entry("finished", timestamp, Len(message)))
        result == parse_message(message, strftime(timestamp))
        table == IF result.raised THEN <<>> ELSE build_table(result.samples)
    IN
    /\ polled' = Append(polled, <<timestamp, data>>)
    /\ IF Len(data) > 0 THEN
           /\ blank_line_count' = CountAfterData(blank_line_count)
           /\ message' = Append(message, <<timestamp, data>>)
           /\ procs' = StillRunning
           /\ log' = log1
           /\ UNCHANGED <<pc, jobs, parsed, files>>
       ELSE IF KeepsWaiting(count) \/ Len(message) = 0 THEN
           /\ blank_line_count' = count
           /\ procs' = StillRunning
           /\ log' = log1
           /\ UNCHANGED <<pc, message, jobs, parsed, files>>
       ELSE IF ~IsSaved(message) THEN
           /\ blank_line_count' = count
           /\ message' = <<>>
           /\ procs' = StillRunning
           /\ log' = logF
           /\ UNCHANGED <<pc, jobs, parsed, files>>
       ELSE \E io \in IoOutcomes :
           IF ~io.mkdir THEN
               \* cache.mkdir raises outside every try: main_core is left
               /\ pc' = "crashed"
               /\ blank_line_count' = count
               /\ procs' = StillRunning
               /\ log' = logF
               /\ UNCHANGED <<message, jobs, parsed, files>>
           ELSE
               LET log2 == IF io.raw THEN logF
                           ELSE Append(logF, Entry("raw_failed", timestamp, 0))
                   files1 == IF io.raw
                             THEN Append(files,
                                      [name |-> strftime(timestamp),
                                       kind |-> "raw",
                                       lines |-> write_playback(timestamp, message),
                                       table |-> <<>>])
                             ELSE files
                   written == ~result.raised /\ io.xlsx
                   synced == written /\ io.popen
               IN
               /\ pc' = pc
               /\ blank_line_count' = count
               /\ message' = <<>>
               /\ parsed' = Append(parsed,
                                [at |-> timestamp, poll |-> Len(polled) + 1,
                                 message |-> message, raised |-> result.raised,
                                 samples |-> result.samples, table |-> table])
               /\ files' = IF written
                           THEN Append(files1,
                                    [name |-> strftime(timestamp),
                                     kind |-> "xlsx", lines |-> <<>>,
                                     table |-> table])
                           ELSE files1
               /\ jobs' = IF synced THEN Append(jobs, "running") ELSE jobs
               /\ procs' = IF synced THEN Append(StillRunning, Len(jobs) + 1)
                           ELSE StillRunning
               /\ log' = IF synced THEN log2
                         ELSE Append(log2, Entry("xlsx_failed", timestamp, 0))

\* for timestamp, data in instrument, with instrument an AstmReader
ReadInstrument ==
    /\ pc = "loop"
    /\ instrument.source = "live"
    /\ clock <= MaxPolls
    /\ \E raw \in LiveChunks : Iteration(clock, raw)
    /\ clock' = clock + 1
    /\ UNCHANGED <<instrument, captured, parseVars, tableVars, filterVars>>

\* for timestamp, data in instrument, with instrument an AstmPlayback
ReadPlayback ==
    /\ pc = "loop"
    /\ instrument.source # "live"
    /\ Len(instrument.pending) > 0
    /\ LET chunk == PlaybackChunk(Head(instrument.pending))
       IN  Iteration(chunk[1], chunk[2])
    /\ instrument' = [instrument EXCEPT !.pending = Tail(@)]
    /\ UNCHANGED <<clock, captured, parseVars, tableVars, filterVars>>

\* a sync job's process ends, with return code 0 or not
JobExits ==
    /\ \E j \in 1..Len(jobs), rc \in {"ok", "failed"} :
          /\ jobs[j] = "running"
          /\ jobs' = [jobs EXCEPT ![j] = rc]
    /\ UNCHANGED <<pc, instrument, clock, message, blank_line_count, procs,
                   parsed, log, files, polled, captured, parseVars, tableVars, filterVars>>

\* the source is exhausted: wait for every job still in procs and log it
EndOfStream ==
    /\ pc = "loop"
    /\ instrument.source # "live"
    /\ Len(instrument.pending) = 0
    /\ \E rcs \in [1..Len(jobs) -> {"ok", "failed"}] :
          /\ \A j \in 1..Len(jobs) : jobs[j] # "running" => rcs[j] = jobs[j]
          /\ jobs' = rcs
          /\ log' = log \o [i \in 1..Len(procs) |->
                               [event |-> IF rcs[procs[i]] = "ok"
                                          THEN "final_ok" ELSE "final_failed",
                                at |-> 0, n |-> procs[i], poll |-> 0]]
    /\ pc' = "done"
    /\ UNCHANGED <<instrument, clock, message, blank_line_count, procs,
                   parsed, files, polled, captured, parseVars, tableVars, filterVars>>

\* the logger is stopped and started again with --instrument-playback on a
\* .raw file the stopped run wrote (one replay run per history)
Replay ==
    /\ instrument.source # "replay"
    /\ \E f \in 1..Len(files), k \in 1..Len(parsed) :
          /\ files[f].kind = "raw"
          /\ files[f].name = strftime(parsed[k].at)
          /\ instrument' = [source |-> "replay", pending |-> files[f].lines]
          /\ captured' = [at |-> parsed[k].at, message |-> parsed[k].message]
    /\ pc' = "loop"
    /\ message' = <<>>
    /\ blank_line_count' = 0
    /\ procs' = <<1>>
    /\ jobs' = <<"running">>
    /\ parsed' = <<>>
    /\ log' = <<>>
    /\ files' = <<>>
    /\ polled' = <<>>
    /\ UNCHANGED <<clock, parseVars, tableVars, filterVars>>

Next == ReadInstrument \/ ReadPlayback \/ JobExits \/ EndOfStream \/ Replay

Spec == Init /\ [][Next]_vars

(***************************************************************************)
(* Properties of the framing loop (Spec).                                  *)
(***************************************************************************)
\* the empty chunks at the end of a chunk history
RECURSIVE TrailingEmpties(_)
TrailingEmpties(h) ==
    IF Len(h) = 0 \/ Len(h[Len(h)][2]) > 0 THEN 0
    ELSE 1 + TrailingEmpties(SubSeq(h, 1, Len(h) - 1))

\* the iterations at which a message was finished
FinishedAt(l) == {l[i].poll : i \in {j \in 1..Len(l) : l[j].event = "finished"}}

\* the non-empty chunks read in iterations from + 1 .. to
ChunksBetween(from, to) ==
    LET idx == {i \in (from + 1)..to : Len(polled[i][2]) > 0}
        RECURSIVE Collect(_)
        Collect(i) ==
            IF i > to THEN <<>>
            ELSE (IF i \in idx THEN <<polled[i]>> ELSE <<>>) \o Collect(i + 1)
    IN  Collect(from + 1)

\* the iteration of the last message finished before iteration p, or 0
PreviousFinish(p) ==
    LET earlier == {q \in FinishedAt(log) : q < p}
    IN  IF earlier = {} THEN 0
        ELSE CHOOSE q \in earlier : \A o \in earlier : o <= q

\* C1: a message in progress is finished exactly by the 3rd consecutive
\* empty (filtered) chunk after its last non-empty chunk; a non-empty chunk
\* after 1 or 2 empty chunks is appended to the same message and restarts
\* the counter.
C1_Step ==
    (Len(polled') = Len(polled) + 1 /\ Len(message) > 0) =>
        LET chunk == polled'[Len(polled')]
            finishedNow == Len(polled') \in FinishedAt(log')
        IN  /\ finishedNow <=>
                   (Len(chunk[2]) = 0 /\ TrailingEmpties(polled') = 3)
            /\ Len(chunk[2]) > 0 =>
                   /\ message' = Append(message, chunk)
                   /\ blank_line_count' = 0
            /\ (Len(chunk[2]) = 0 /\ ~finishedNow) => message' = message

\* C1: every step of the loop keeps the threshold rule: a message is finished
\* by the 3rd consecutive empty chunk after its last non-empty chunk, never
\* by the 1st or 2nd, and a non-empty chunk joins the message in progress.
C1_Threshold == [][C1_Step]_vars

\* a message of two chunks, two empty chunks between them, was finished by
\* the third empty chunk after the second
C1_Witness ==
    /\ Len(polled) = 7
    /\ Len(polled[1][2]) > 0 /\ Len(polled[2][2]) = 0 /\ Len(polled[3][2]) = 0
    /\ Len(polled[4][2]) > 0
    /\ FinishedAt(log) = {7}
    /\ \E i \in 1..Len(log) : log[i].event = "finished" /\ log[i].n = 2
    /\ message = <<>>

\* C2 as claimed: every finished message, whatever its length, is handed
\* to parse_message.
C2_EveryFinishedParsed ==
    \A i \in 1..Len(log) :
        log[i].event = "finished" =>
            \E k \in 1..Len(parsed) :
                /\ parsed[k].poll = log[i].poll
                /\ Len(parsed[k].message) = log[i].n

\* C2 as amended: a finished message consists of the non-empty chunks read
\* since the message before it; it is handed to parse_message, once, if and
\* only if it has more than 3 chunks and its cache directory could be made
\* (a failing mkdir ends main_core); a message of 1, 2 or 3 chunks is
\* dropped unparsed.
C2_ParsedIffLong ==
    /\ \A i \in 1..Len(log) :
          log[i].event = "finished" =>
              LET p == log[i].poll
                  chunks == ChunksBetween(PreviousFinish(p), p)
                  calls == {k \in 1..Len(parsed) : parsed[k].poll = p}
                  crashedHere == pc = "crashed" /\ p = Len(polled)
              IN  /\ log[i].n = Len(chunks)
                  /\ log[i].n > 0
                  /\ IF log[i].n > 3 /\ ~crashedHere
                     THEN /\ Cardinality(calls) = 1
                          /\ \A k \in calls : parsed[k].message = chunks
                     ELSE calls = {}
    /\ \A k \in 1..Len(parsed) : parsed[k].poll \in FinishedAt(log)

\* a message of 2 chunks was finished and dropped, a later one of more than
\* 3 chunks was parsed
C2_Witness ==
    /\ \E i \in 1..Len(log) : log[i].event = "finished" /\ log[i].n = 2
    /\ \E i \in 1..Len(log) : log[i].event = "finished" /\ log[i].n > 3
    /\ Len(parsed) = 1

\* the outcome the end-to-end scenario describes
StampText == <<"2", "0", "2", "3", "-", "0", "6", "-", "1", "5", " ",
               "0", "9", ":", "3", "0", ":", "0", "0">>

ScenarioOutcome ==
    /\ Cardinality(FinishedAt(log)) = 1
    /\ Len(parsed) = 1
    /\ Len(parsed[1].message) = 4
    /\ ~parsed[1].raised
    /\ Len(parsed[1].samples) = 1
    /\ LET sample == parsed[1].samples[1]
           row == parsed[1].table[3]
       IN  /\ sample.timestamp = Str(StampText)
           /\ sample.name_1 = Str(Alice)
           /\ sample.name_2 = Str(Bob)
           /\ sample.type = Str(TypeX)
           /\ sample.assays = <<Assay(Glucose, V55, MgDl),
                                Assay(Lactate, <<"?">> \o V12, MmolL)>>
           /\ Len(parsed[1].table) = 3
           /\ Len(row) = 9
           /\ parsed[1].table[1][7] = Plain(Str(Glucose))
           /\ parsed[1].table[1][8] = Plain(Str(Lactate))
           /\ row[7] = [tag |-> "Plain", isNone |-> FALSE, text |-> V55]
           /\ row[8] = [tag |-> "Odd", isNone |-> FALSE, text |-> V12]
           /\ row[9].text = OddPrefix \o Lactate

\* C4 as claimed: the four lines as the specification writes them (a
\* 13-field H line, R lines of 4 fields) and 3 empty chunks give the record
\* and the table row of the scenario.
C4_ScenarioAsWritten ==
    (instrument.source = "as written" /\ pc = "done") => ScenarioOutcome

\* C4 as amended: the scenario holds for the lines laid out by the field
\* offsets of the code: an H line of 14 fields with the time in field 13 and
\* R lines of 5 fields, R|1|^Glucose|5.5|mg/dL and R|2|^Lactate|?1.2|mmol/L.
C4_ScenarioByOffsets ==
    (instrument.source = "by offsets" /\ pc = "done") => ScenarioOutcome

C4_Witness ==
    /\ instrument.source = "by offsets"
    /\ pc = "done"
    /\ Len(parsed) = 1
    /\ \E f \in 1..Len(files) : files[f].kind = "xlsx"

\* the log has a line of the given event written in iteration p
Logged(event, p) ==
    \E i \in 1..Len(log) : log[i].event = event /\ log[i].poll = p

\* a file of the given kind was written for the message finished at time t
Written(kind, t) ==
    \E f \in 1..Len(files) : files[f].kind = kind /\ files[f].name = strftime(t)

\* C12 as claimed: no failure met while a finished message is handled ends
\* the polling loop; the message is handed on once, what failed is logged
\* (a raw file that is missing, a report or sync job that is missing), the
\* message in progress is empty afterwards, and every message, also after a
\* failure, consists of exactly the non-empty chunks read since the message
\* before it.
C12_FailureIsolation ==
    /\ pc # "crashed"
    /\ \A i \in 1..Len(log) :
          log[i].event = "finished" =>
              LET p == log[i].poll
                  calls == {k \in 1..Len(parsed) : parsed[k].poll = p}
              IN  /\ log[i].n = Len(ChunksBetween(PreviousFinish(p), p))
                  /\ p = Len(polled) => message = <<>>
                  /\ log[i].n > 3 =>
                        /\ Cardinality(calls) = 1
                        /\ \A k \in calls :
                              /\ parsed[k].message =
                                     ChunksBetween(PreviousFinish(p), p)
                              /\ Logged("raw_failed", p)
                                     <=> ~Written("raw", parsed[k].at)
                              /\ parsed[k].raised => Logged("xlsx_failed", p)
                              /\ ~Written("xlsx", parsed[k].at)
                                     => Logged("xlsx_failed", p)
    /\ Len(jobs) = 1 + Cardinality({k \in 1..Len(parsed) :
                                       ~Logged("xlsx_failed", parsed[k].poll)})

\* C15 as claimed: an empty chunk read while no message is in progress
\* changes neither the message buffer nor the counter, the counter is 0
\* after a message is finished, and so the counter is non-zero only while a
\* message is in progress.
C15_IdleStep ==
    Len(polled') = Len(polled) + 1 =>
        LET empty == Len(polled'[Len(polled')][2]) = 0
        IN  /\ (empty /\ message = <<>>) =>
                   (message' = message /\ blank_line_count' = blank_line_count)
            /\ Len(polled') \in FinishedAt(log') => blank_line_count' = 0
            /\ blank_line_count' > 0 => Len(message') > 0

\* C15 as claimed, over every step of the loop
C15_IdleNoOp == [][C15_IdleStep]_vars

\* C15 as amended: an empty chunk read while no message is in progress
\* leaves the buffer empty and finishes, saves and parses nothing, but it
\* does increment the counter; the counter is not reset when a message is
\* finished (it is 3 then) and goes back to 0 only on a non-empty chunk, so
\* it always equals the number of empty chunks read since the last
\* non-empty one and can be non-zero, without bound, while no message is in
\* progress.
C15_CountStep ==
    Len(polled') = Len(polled) + 1 =>
        LET empty == Len(polled'[Len(polled')][2]) = 0
        IN  /\ blank_line_count' = IF empty THEN blank_line_count + 1 ELSE 0
            /\ blank_line_count' = TrailingEmpties(polled')
            /\ (empty /\ message = <<>>) =>
                   /\ message' = <<>>
                   /\ FinishedAt(log') = FinishedAt(log)
                   /\ parsed' = parsed
                   /\ files' = files
            /\ Len(polled') \in FinishedAt(log') => blank_line_count' = 3

\* C15 as amended, over every step of the loop
C15_CounterCountsIdle == [][C15_CountStep]_vars

\* after a message was finished the idle loop read two more empty chunks:
\* no message in progress and the counter at 5
C15_Witness ==
    /\ FinishedAt(log) # {}
    /\ message = <<>>
    /\ blank_line_count = 5
    /\ TrailingEmpties(polled) = 5

\* the lines of the log about sync job j
JobLines(l, j) ==
    {i \in 1..Len(l) :
        /\ l[i].n = j
        /\ l[i].event \in {"cmd_ok", "cmd_failed", "final_ok", "final_failed"}}

\* the jobs in flight
InFlight(p) == {p[i] : i \in 1..Len(p)}

\* the state of the sync jobs of a run
C19_JobsState ==
    /\ InFlight(procs) \subseteq 1..Len(jobs)
    /\ Cardinality(InFlight(procs)) = Len(procs)
    /\ \A j \in 1..Len(jobs) :
          /\ Cardinality(JobLines(log, j)) <= 1
          /\ j \notin InFlight(procs) => Cardinality(JobLines(log, j)) = 1
          /\ (j \in InFlight(procs) /\ pc # "done") => JobLines(log, j) = {}
          /\ pc = "done" => Cardinality(JobLines(log, j)) = 1
          /\ \A i \in JobLines(log, j) :
                /\ jobs[j] # "running"
                /\ log[i].event \in {"cmd_ok", "final_ok"} <=> jobs[j] = "ok"

\* the steps of a run (a replay run starts a new one)
C19_JobsStep ==
    instrument'.source = instrument.source =>
        \* a job leaves the in-flight set once and does not come back
        /\ \A j \in 1..Len(jobs) :
              j \notin InFlight(procs) => j \notin InFlight(procs')
        \* in the loop only a job that has ended is logged
        /\ (pc' = "loop" /\ pc = "loop") =>
              \A j \in 1..Len(jobs) :
                  JobLines(log', j) # JobLines(log, j) => jobs[j] # "running"
        \* a job that ends changes nothing of the loop
        /\ (\E j \in 1..Len(jobs) : jobs'[j] # jobs[j]) /\ pc' = "loop" =>
              UNCHANGED <<message, blank_line_count, parsed, files, polled,
                          procs, log>>
        \* whatever the jobs do, a chunk is read whenever one is there
        /\ Len(polled') = Len(polled) + 1 =>
              /\ blank_line_count' =
                     IF Len(polled'[Len(polled')][2]) = 0
                     THEN blank_line_count + 1 ELSE 0
              /\ Len(polled'[Len(polled')][2]) > 0 =>
                     message' = Append(message, polled'[Len(polled')])

\* C19: in the loop a sync job is waited on and logged only after it has
\* ended, so a running job blocks nothing; a job leaves the in-flight set at
\* most once; when the chunk source has ended every job launched has
\* exactly one line of outcome in the log, written in the loop or by the
\* final wait, matching its return code; and a job that ends changes
\* neither the message, the counter nor what was parsed and written.
C19_SyncJobs == []C19_JobsState /\ [][C19_JobsStep]_vars

\* the source has ended: one job was logged in the loop, another by the
\* final wait, one of them failed
C19_Witness ==
    /\ pc = "done"
    /\ Len(jobs) >= 2
    /\ \E i \in 1..Len(log) : log[i].event \in {"cmd_ok", "cmd_failed"}
    /\ \E i \in 1..Len(log) : log[i].event \in {"final_ok", "final_failed"}
    /\ \E i \in 1..Len(log) : log[i].event \in {"cmd_failed", "final_failed"}

\* the framer of the specification run over a chunk history: Idle or
\* Collecting, a counter that is reset when a message is emitted, empty
\* chunks ignored while Idle
RECURSIVE TwoStateFramer(_)
TwoStateFramer(h) ==
    IF Len(h) = 0
    THEN [state |-> "Idle", buffer |-> <<>>, counter |-> 0, emitted |-> <<>>]
    ELSE LET f == TwoStateFramer(SubSeq(h, 1, Len(h) - 1))
             chunk == h[Len(h)]
             empty == Len(chunk[2]) = 0
         IN  IF f.state = "Idle"
             THEN IF empty THEN f
                  ELSE [f EXCEPT !.state = "Collecting", !.buffer = <<chunk>>,
                                 !.counter = 0]
             ELSE IF ~empty
             THEN [f EXCEPT !.buffer = Append(@, chunk), !.counter = 0]
             ELSE IF f.counter + 1 < 3
             THEN [f EXCEPT !.counter = @ + 1]
             ELSE [state |-> "Idle", buffer |-> <<>>, counter |-> 0,
                   emitted |-> Append(f.emitted, [poll |-> Len(h),
                                                  message |-> f.buffer])]

\* one chunk more: the loop finishes a message exactly when the two-state
\* framer emits one, with the same chunks, and they hold the same message
\* in progress
C20_Step ==
    Len(polled') = Len(polled) + 1 =>
        LET before == TwoStateFramer(polled)
            after == TwoStateFramer(polled')
            emits == Len(after.emitted) = Len(before.emitted) + 1
        IN  /\ Len(polled') \in FinishedAt(log') <=> emits
            /\ emits =>
                   after.emitted[Len(after.emitted)] =
                       [poll |-> Len(polled'), message |-> message]
            /\ message = before.buffer
            /\ (Len(message) = 0) <=> (before.state = "Idle")
            /\ Len(after.emitted) = Cardinality(FinishedAt(log'))

\* C20: for every chunk sequence the loop of main_core, with its one
\* counter that counts every empty chunk and is reset only by a chunk with
\* data, finishes the same messages as the two-state framer of the
\* specification: at the same chunks and with the same contents; so a
\* message begun after any number of idle empty chunks still needs 3
\* empty chunks in a row to finish.
C20_Refinement == [][C20_Step]_vars

\* three empty chunks while idle, then a chunk with data, finished only by
\* the third empty chunk after it, the counter having stood at 3 before
C20_Witness ==
    /\ Len(polled) = 7
    /\ \A i \in 1..3 : Len(polled[i][2]) = 0
    /\ Len(polled[4][2]) > 0
    /\ \A i \in 5..7 : Len(polled[i][2]) = 0
    /\ FinishedAt(log) = {7}
    /\ TwoStateFramer(polled).emitted = <<[poll |-> 7, message |-> <<polled[4]>>]>>

\* C13 as claimed: a replay run that reads the .raw file written for a
\* message finished at time T to its end finishes exactly one message, at
\* T, made of the chunks of the original message (same timestamps, same
\* bytes, same order), and leaves no message in progress.
C13_RoundTrip ==
    (instrument.source = "replay" /\ pc = "done") =>
        /\ Cardinality(FinishedAt(log)) = 1
        /\ \A i \in 1..Len(log) :
              log[i].event = "finished" =>
                  /\ log[i].at = captured.at
                  /\ log[i].n = Len(captured.message)
                  /\ ChunksBetween(0, log[i].poll) = captured.message
        /\ \A k \in 1..Len(parsed) : parsed[k].message = captured.message
        /\ message = <<>>

(***************************************************************************)
(* Properties of parse_message (SpecParse).                                *)
(***************************************************************************)
\* the kind of a line, by the first field of its row
LineIs(chunk, kind) == _is(SplitRow(chunk[2]), kind)

\* C3 as claimed: parse_message returns for every message, however few
\* fields its lines have.
C3_NeverRaises == parse_out.done => ~parse_out.raised

\* C5 as claimed: every record returned has an assay or an error, and a
\* message without result and error lines returns the empty list.
C5_Retention ==
    parse_out.done =>
        /\ \A i \in 1..Len(parse_out.samples) :
              Len(parse_out.samples[i].assays) + Len(parse_out.samples[i].errors) > 0
        /\ (\A i \in 1..Len(parse_in) :
               ~LineIs(parse_in[i], ASSAY_ROW) /\ ~LineIs(parse_in[i], ERROR_ROW))
           => (~parse_out.raised /\ parse_out.samples = <<>>)

\* the positions of the header lines of a message
HeaderPositions(msg) == {i \in 1..Len(msg) : LineIs(msg[i], HEADER_ROW)}

\* the record a line belongs to: the number of header lines up to it, 0
\* before the first header line
RecordOf(msg, i) == Cardinality({h \in HeaderPositions(msg) : h <= i})

\* a line with fewer fields than the offsets of its kind reach
TooShort(chunk) ==
    LET row == SplitRow(chunk[2])
    IN  \/ _is(row, HEADER_ROW) /\ ~HasField(row, HEADER_ROW_TIME)
        \/ _is(row, NAME_ROW) /\ ~HasField(row, NAME_ROW_TYPE)
        \/ _is(row, ERROR_ROW) /\ ~HasField(row, ERROR_ROW_MESSAGE)
        \/ _is(row, ASSAY_ROW) /\ ~HasField(row, ASSAY_ROW_UNITS)

\* the lines read before the first line that is too short
ReadLines(msg) ==
    {i \in 1..Len(msg) : \A j \in 1..i : ~TooShort(msg[j])}

\* the positions of the result and error lines record k took in
Accumulated(msg, k) ==
    {i \in ReadLines(msg) :
        /\ RecordOf(msg, i) = k
        /\ LineIs(msg[i], ASSAY_ROW) \/ LineIs(msg[i], ERROR_ROW)}

\* the records with at least one result or error line, in header order
ExpectedIds(msg) ==
    SelectSeq([k \in 1..(Cardinality(HeaderPositions(msg)) + 1) |-> k - 1],
              LAMBDA k : Accumulated(msg, k) # {})

\* C16 as claimed: the record started by the k-th header line has id k;
\* parse_message returns, in header order and once each, exactly the
\* records that have a result or an error line, so the ids returned are
\* strictly increasing.
C16_SequenceIds ==
    parse_out.done =>
        /\ Len(parse_out.samples) = Len(ExpectedIds(parse_in))
        /\ \A i \in 1..Len(parse_out.samples) :
              parse_out.samples[i].id = Str(IntToStr(ExpectedIds(parse_in)[i]))

\* the lines of a message before its first header line
BeforeFirstHeader(msg) ==
    SubSeq(msg, 1, Cardinality({i \in 1..Len(msg) : RecordOf(msg, i) = 0}))

\* C17 as claimed: the result and error lines before the first header line
\* go to one record with id 0 and no timestamp; it is returned, as the
\* first record, if and only if it took in a result or an error; it is
\* what the lines before the first header alone give, so no line after a
\* header changes it, and no other record has id 0.
C17_RecordZero ==
    parse_out.done =>
        LET first == parse_out.samples[1]
            alone == parse_message(BeforeFirstHeader(parse_in), GroupLabel)
        IN  /\ Accumulated(parse_in, 0) # {} <=>
                   (Len(parse_out.samples) > 0 /\ first.id = Str(IntToStr(0)))
            /\ Accumulated(parse_in, 0) # {} =>
                   /\ first.timestamp = None
                   /\ alone.samples = <<first>>
            /\ \A i \in 2..Len(parse_out.samples) :
                   parse_out.samples[i].id # Str(IntToStr(0))

\* a sequence without the repetitions of its elements
RECURSIVE FirstOccurrences(_)
FirstOccurrences(q) ==
    IF Len(q) = 0 THEN <<>>
    ELSE LET front == FirstOccurrences(SubSeq(q, 1, Len(q) - 1))
         IN  IF \E i \in 1..Len(front) : front[i] = q[Len(q)]
             THEN front ELSE Append(front, q[Len(q)])

\* what the result lines of record k report, line by line: the name without
\* its "^" characters, the value and the units
ResultEntries(msg, k) ==
    LET at == SelectSeq([i \in 1..Len(msg) |-> i],
                  LAMBDA i : RecordOf(msg, i) = k /\ LineIs(msg[i], ASSAY_ROW))
        row(i) == SplitRow(msg[at[i]][2])
    IN  [i \in 1..Len(at) |->
            [key |-> Remove(Field(row(i), ASSAY_ROW_NAME), "^"),
             value |-> Field(row(i), ASSAY_ROW_VALUE),
             units |-> Field(row(i), ASSAY_ROW_UNITS)]]

\* one entry per name, at the place of the first report of the name, with
\* the value and units of its last report
LastReports(entries) ==
    LET keys == FirstOccurrences([i \in 1..Len(entries) |-> entries[i].key])
    IN  [j \in 1..Len(keys) |->
            entries[CHOOSE i \in 1..Len(entries) :
                        /\ entries[i].key = keys[j]
                        /\ \A o \in (i + 1)..Len(entries) :
                               entries[o].key # keys[j]]]

\* C18: in every record returned, result lines whose names are equal once
\* the "^" characters are removed share one assay key; the key stands where
\* the first of them put it, holds the value and units of the last of
\* them, and occurs once; result lines of a later record do not touch it.
C18_AssayMerging ==
    (parse_out.done /\ ~parse_out.raised) =>
        /\ Len(parse_out.samples) = Len(ExpectedIds(parse_in))
        /\ \A r \in 1..Len(parse_out.samples) :
              LET assays == parse_out.samples[r].assays
              IN  /\ assays = LastReports(ResultEntries(parse_in,
                                               ExpectedIds(parse_in)[r]))
                  /\ \A i, j \in 1..Len(assays) :
                         assays[i].key = assays[j].key => i = j

\* ^^^Glucose, ^Lactate and Glucose^ in one record give Glucose, with the
\* value and units of the last line, in first place and Lactate in second
C18_Witness ==
    /\ parse_out.done
    /\ Len(parse_in) = 3
    /\ parse_in[1][2] = ResultGlucose
    /\ parse_in[2][2] = ResultLactate
    /\ parse_in[3][2] = ResultGlucoseAgain
    /\ Len(parse_out.samples) = 1
    /\ parse_out.samples[1].assays =
           <<Assay(Glucose, ErrorToken, MmolL),
             Assay(Lactate, <<"?">> \o V12, MmolL)>>

(***************************************************************************)
(* Properties of build_table (SpecTable).                                  *)
(***************************************************************************)
\* the assay keys of the records, in input order, with repetitions
RECURSIVE KeysOf(_)
KeysOf(rows) ==
    IF Len(rows) = 0 THEN <<>>
    ELSE [i \in 1..Len(rows[1].assays) |-> rows[1].assays[i].key]
           \o KeysOf(Tail(rows))

\* the distinct assay names of the input, in order of first appearance
Columns == FirstOccurrences(KeysOf(table_in))

\* the entries, over all records, that report assay key
Reports(key) ==
    {e \in UNION {{table_in[r].assays[i] : i \in 1..Len(table_in[r].assays)} :
                  r \in 1..Len(table_in)} : e.key = key}

\* the units the first record with the assay reports for it
FirstUnits(key) ==
    LET r == CHOOSE q \in 1..Len(table_in) :
                 /\ HasKey(table_in[q].assays, key)
                 /\ \A o \in 1..(q - 1) : ~HasKey(table_in[o].assays, key)
    IN  Lookup(table_in[r].assays, key).units

\* the units cell an assay column must show
ExpectedUnits(key) ==
    IF Cardinality({e.units : e \in Reports(key)}) >= 2
    THEN [tag |-> "Odd", isNone |-> FALSE, text |-> <<"?", "?", "?">>]
    ELSE [tag |-> "Plain", isNone |-> FALSE, text |-> FirstUnits(key)]

\* the assay names of a record whose raw value starts with "?", by column
Flagged(r) ==
    SelectSeq(Columns,
        LAMBDA k : /\ HasKey(table_in[r].assays, k)
                   /\ Len(Lookup(table_in[r].assays, k).value) > 0
                   /\ Lookup(table_in[r].assays, k).value[1] = "?")

\* C6: the units cell of an assay is the Odd cell "???" exactly when two
\* records report the assay with different units, also when a later record
\* repeats the first units; otherwise it is the first units seen.
C6_UnitConflict ==
    table_out.done =>
        /\ Len(table_out.table[2]) = 6 + Len(Columns)
        /\ \A i \in 1..Len(Columns) :
              table_out.table[2][6 + i] = ExpectedUnits(Columns[i])

\* three records report Glucose in mg/dL, mmol/L and mg/dL again
C6_Witness ==
    /\ table_out.done
    /\ Len(table_in) = 3
    /\ \A r \in 1..3 : HasKey(table_in[r].assays, Glucose)
    /\ Lookup(table_in[1].assays, Glucose).units = MgDl
    /\ Lookup(table_in[2].assays, Glucose).units = MmolL
    /\ Lookup(table_in[3].assays, Glucose).units = MgDl
    /\ table_out.table[2][7].tag = "Odd"

\* C7: with N distinct assay names, both header rows have 6 + N cells and
\* every data row has its assay cells at positions 6 .. 6 + N - 1; column i
\* holds the i-th name in order of first appearance, its units cell, and in
\* each data row the record's value for that name or an empty cell.
C7_Alignment ==
    table_out.done =>
        LET tab == table_out.table
            n == Len(Columns)
        IN  /\ Len(tab) = 2 + Len(table_in)
            /\ Len(tab[1]) = 6 + n
            /\ Len(tab[2]) = 6 + n
            /\ \A i \in 1..n :
                  /\ tab[1][6 + i] = Plain(Str(Columns[i]))
                  /\ tab[2][6 + i] = ExpectedUnits(Columns[i])
            /\ \A r \in 1..Len(table_in) :
                  /\ Len(tab[2 + r]) >= 6 + n
                  /\ \A i \in 1..n :
                        tab[2 + r][6 + i] =
                            IF HasKey(table_in[r].assays, Columns[i])
                            THEN AssayCell(Str(Lookup(table_in[r].assays,
                                                      Columns[i]).value))
                            ELSE [tag |-> "Plain", isNone |-> TRUE, text |-> <<>>]

\* Lactate appears first, Glucose second, and a record lacks a column
C7_Witness ==
    /\ table_out.done
    /\ Columns = <<Lactate, Glucose>>
    /\ \E r \in 1..Len(table_in) :
          /\ ~HasKey(table_in[r].assays, Lactate)
          /\ table_out.table[2 + r][7].isNone
          /\ table_out.table[2 + r][8].tag = "Odd"

\* C8: a raw value that starts with "?" gives an Odd cell with the value less
\* that one character, and the summary cell of the row lists exactly the
\* names so flagged, in column order.
C8_OddUnwrapping ==
    table_out.done =>
        \A r \in 1..Len(table_in) :
            LET row == table_out.table[2 + r]
            IN  /\ \A i \in 1..Len(Columns) :
                      LET k == Columns[i]
                      IN  (/\ HasKey(table_in[r].assays, k)
                           /\ StartsWith(Lookup(table_in[r].assays, k).value, "?"))
                          => /\ Len(row) >= 6 + i
                             /\ row[6 + i] =
                                   [tag |-> "Odd", isNone |-> FALSE,
                                    text |-> Tail(Lookup(table_in[r].assays, k).value)]
                /\ Len(Flagged(r)) > 0 =>
                      row[Len(row)].text = OddPrefix \o Join(Flagged(r), <<",", " ">>)

\* a row with two flagged assays and one with a value that is not flagged
C8_Witness ==
    /\ table_out.done
    /\ \E r \in 1..Len(table_in) : Flagged(r) = <<Glucose, Lactate>>
    /\ \E r \in 1..Len(table_in) :
          Len(table_in[r].assays) > 0 /\ Flagged(r) = <<>>

\* the shape of a data row: the summary cell, with the given tag, is there
\* exactly when an assay of the row was flagged
SummaryShape(tag) ==
    \A r \in 1..Len(table_in) :
        LET row == table_out.table[2 + r]
            width == 6 + Len(Columns) + Len(table_in[r].errors)
        IN  IF Len(Flagged(r)) > 0
            THEN /\ Len(row) = width + 1
                 /\ row[Len(row)].tag = tag
                 /\ SubSeq(row[Len(row)].text, 1, Len(OddPrefix)) = OddPrefix
            ELSE Len(row) = width

\* C9 as claimed: the summary cell is a Plain cell.
C9_PlainSummary == table_out.done => SummaryShape("Plain")

\* C9 as amended: a data row ends with exactly one summary cell if and only
\* if an assay of the row was flagged Odd, and that cell is itself an
\* OddResult (tagged Odd), not a Plain cell.
C9_OddSummary == table_out.done => SummaryShape("Odd")

C9_Witness ==
    /\ table_out.done
    /\ \E r \in 1..Len(table_in) : Len(Flagged(r)) > 0
    /\ \E r \in 1..Len(table_in) : Len(Flagged(r)) = 0

\* C10: the raw value "****" gives an ErrorTag cell without text; a raw value
\* that neither starts with "?" nor is "****" is the Plain cell of that value.
C10_ErrorToken ==
    table_out.done =>
        \A r \in 1..Len(table_in) : \A i \in 1..Len(Columns) :
            HasKey(table_in[r].assays, Columns[i]) =>
                LET raw == Lookup(table_in[r].assays, Columns[i]).value
                    cell == table_out.table[2 + r][6 + i]
                IN  /\ raw = <<"*", "*", "*", "*">> =>
                          cell = [tag |-> "Error", isNone |-> TRUE, text |-> <<>>]
                    /\ (~StartsWith(raw, "?") /\ raw # <<"*", "*", "*", "*">>) =>
                          cell = [tag |-> "Plain", isNone |-> FALSE, text |-> raw]

\* a table with the error token, an empty value and a number
C10_Witness ==
    /\ table_out.done
    /\ \E r \in 1..Len(table_in) :
          /\ HasKey(table_in[r].assays, Glucose)
          /\ Lookup(table_in[r].assays, Glucose).value = ErrorToken
    /\ \E r \in 1..Len(table_in) :
          /\ HasKey(table_in[r].assays, Lactate)
          /\ Lookup(table_in[r].assays, Lactate).value = <<>>
    /\ \E r \in 1..Len(table_in) :
          /\ HasKey(table_in[r].assays, Glucose)
          /\ Lookup(table_in[r].assays, Glucose).value = V55

\* C11: every data row has 6 + N + E + S cells, N the number of assay
\* columns, E the number of the record's errors and S = 1 if an assay of the
\* row was flagged, else 0; the E cells after the assay block are ErrorTag
\* cells holding the record's errors in their order, and the summary cell,
\* if any, comes after them.
C11_RaggedRows ==
    table_out.done =>
        \A r \in 1..Len(table_in) :
            LET row == table_out.table[2 + r]
                n == Len(Columns)
                e == Len(table_in[r].errors)
                s == IF Len(Flagged(r)) > 0 THEN 1 ELSE 0
            IN  /\ Len(row) = 6 + n + e + s
                /\ \A j \in 1..e :
                      row[6 + n + j] = [tag |-> "Error", isNone |-> FALSE,
                                        text |-> table_in[r].errors[j]]
                /\ s = 1 => row[6 + n + e + 1].tag = "Odd"

\* a record with 2 errors and a flagged assay, next to a record without
\* errors: rows of different trailing length
C11_Witness ==
    /\ table_out.done
    /\ \E r \in 1..Len(table_in) :
          /\ table_in[r].errors = <<Err1, Err2>>
          /\ Len(Flagged(r)) = 1
          /\ Len(table_out.table[2 + r]) = 6 + Len(Columns) + 3
    /\ \E r \in 1..Len(table_in) :
          /\ table_in[r].errors = <<>>
          /\ Len(table_out.table[2 + r]) = 6 + Len(Columns)

(***************************************************************************)
(* Properties of the status filter (SpecFilter).                           *)
(***************************************************************************)
HasToken(data) ==
    \E k \in 1..Len(STATUS_MESSAGES) : Contains(data, STATUS_MESSAGES[k])

\* C14 as claimed: the bytes handed on to framing hold none of the three
\* status tokens, so filtering them again changes nothing, and a chunk
\* without a token is handed on unchanged.
C14_NoTokenLeft ==
    filter_out.done =>
        /\ ~HasToken(filter_out.data)
        /\ FilterStatus(filter_out.data) = filter_out.data
        /\ ~HasToken(filter_in) => filter_out.data = filter_in

====
